---- MODULE Spec2Model ----
(***************************************************************************)
(* Model of churn_plot.py: the Streamlit script that extracts the churned  *)
(* agreements of one billing-start date from the warehouse table, computes *)
(* the accumulated churn rate per month offset (analyze_churn) and         *)
(* animates the two resulting series over months 1..12.                    *)
(*                                                                         *)
(* A date cell is a record [kind, day]: what the warehouse hands over is   *)
(* kind "date" (a calendar date) or "none" (SQL NULL); what pd.to_datetime *)
(* produces is kind "ts" (a Timestamp) or "nat" (NaT).  day is the day     *)
(* number of the date (0 for the two null kinds).  A categorical cell is a *)
(* string, NULL standing for SQL NULL / Python None.  A timedelta's .days  *)
(* is <<n>>, or <<>> for NaN.  A churn rate is a fraction in lowest terms. *)
(* A dataframe is [dtypes, rows]: the dtype of each date column and the    *)
(* rows in order.                                                          *)
(***************************************************************************)
EXTENDS Integers, Sequences, FiniteSets, TLC

VARIABLES
    table,                      \* the warehouse table the session reads
    selected_date,              \* sidebar date input
    selected_product_group,     \* sidebar select boxes
    selected_channel,
    selected_award_agent_team,
    dataframe,                  \* the extracted rows, shared by all calls
    progress_bar,
    status_text,
    churn_month,
    month,                      \* loop variable of the animation loop
    initial_data,
    initial_data_reporting,
    new_data,
    new_data_reporting,
    df_billing_start,           \* series built from AGREEMENT_EFF_END_DATE
    df_reporting_start,         \* series built from REPORTING_DATE_START_OF_MONTH
    fig,                        \* the figure built from the two series
    chart,                      \* the figure as last drawn
    raw_data,                   \* the table shown under "Raw Data"
    pc

vars == << table, selected_date, selected_product_group, selected_channel,
           selected_award_agent_team, dataframe, progress_bar, status_text,
           churn_month, month, initial_data, initial_data_reporting, new_data,
           new_data_reporting, df_billing_start, df_reporting_start, fig,
           chart, raw_data, pc >>

-----------------------------------------------------------------------------
(* Bounds of the model *)

\* most rows the warehouse table holds when the driver is run
MaxRows == 3

\* most rows the warehouse table holds when only the extraction is run
MaxTableRows == 2

\* most rows the warehouse table holds when termination is checked
MaxLiveRows == 2

(* Program constants *)

\* datetime.date(2021, 10, 1), as a day number
DefaultDate == 18901

\* the day threshold of one month offset
DaysPerMonth == 30

\* range(2, 13): the last month of the animation
LastMonth == 12

NULL == "<null>"
All  == "All"

BILLING   == "AGREEMENT_BILLING_START_DATE"
REPORTING == "REPORTING_DATE_START_OF_MONTH"
END_DATE  == "AGREEMENT_EFF_END_DATE"
DateCols  == {END_DATE, REPORTING}

RawDate(d) == [kind |-> "date", day |-> d]
RawNone    == [kind |-> "none", day |-> 0]
Timestamp(d) == [kind |-> "ts", day |-> d]
NaT        == [kind |-> "nat", day |-> 0]
NaN        == << >>

-----------------------------------------------------------------------------
(* Library operations, as the script uses them *)

\* pd.to_datetime on one cell
to_datetime(v) ==
    CASE v.kind = "date" -> Timestamp(v.day)
      [] v.kind = "none" -> NaT
      [] OTHER           -> v

\* timedelta_days with missing days filled with 0 (a .fillna(0) before the
\* comparison): MissingNeverMatched tells the two apart
timedelta_days_fillna(a, b) ==
    IF a.kind = "ts" /\ b.kind = "ts" THEN << a.day - b.day >> ELSE << 0 >>

\* (a - b).dt.days on one pair of datetime cells: NaT propagates to NaN
timedelta_days(a, b) ==
    IF a.kind = "ts" /\ b.kind = "ts" THEN << a.day - b.day >> ELSE NaN

\* le_scalar with < for <=: PointIsMatchedOverTotal tells the two apart
le_scalar_strict(days, limit) == days # NaN /\ days[1] < limit

\* le_scalar counting only the month that ends at limit, not the months
\* before it: Monotonic tells the two apart
le_scalar_window(days, limit) ==
    days # NaN /\ days[1] <= limit /\ days[1] > limit - 30

\* days <= limit on one cell: a comparison with NaN is False
le_scalar(days, limit) == days # NaN /\ days[1] <= limit

\* selected_date.strftime('%Y-%m-%d')
strftime(d) == [fmt |-> "%Y-%m-%d", day |-> d]

\* SQL: date column = 'YYYY-MM-DD' (NULL compares to nothing)
sql_date_eq(cell, str) == cell.kind = "date" /\ cell.day = str.day

\* SQL: column = literal; NULL on either side is not TRUE
sql_eq(cell, lit) == cell # NULL /\ lit # NULL /\ cell = lit

RECURSIVE GCD(_, _)
GCD(a, b) == IF b = 0 THEN a ELSE GCD(b, a % b)

\* true_div giving a percentage (a / b * 100): RateInUnitInterval tells
\* the two apart
true_div_percent(a, b) ==
    [num |-> (100 * a) \div GCD(100 * a, b), den |-> b \div GCD(100 * a, b)]

\* a / b for counts 0 <= a, 0 < b, as the fraction in lowest terms
true_div(a, b) == [num |-> a \div GCD(a, b), den |-> b \div GCD(a, b)]

\* the literal 0 of the empty-input return
Zero == [num |-> 0, den |-> 1]

RECURSIVE SelectFrom(_, _, _)
SelectFrom(s, keep, i) ==
    IF i > Len(s) THEN << >>
    ELSE IF keep[i] THEN << s[i] >> \o SelectFrom(s, keep, i + 1)
    ELSE SelectFrom(s, keep, i + 1)

\* the rows of s, in order, whose predicate value keep[i] is TRUE
filter(s, keep) == SelectFrom(s, keep, 1)

-----------------------------------------------------------------------------
(* fetch_unique_values and the select boxes *)

fetch_unique_values(tbl, column_name) == { tbl[i][column_name] : i \in DOMAIN tbl }

unique_product_groups(tbl)    == {All} \cup fetch_unique_values(tbl, "PRODUCT_GROUP")
unique_channels(tbl)          == {All} \cup fetch_unique_values(tbl, "CHANNEL")
unique_award_agent_teams(tbl) == {All} \cup fetch_unique_values(tbl, "AWARD_AGENT_TEAM_ROLL_UP")

-----------------------------------------------------------------------------
(* extract_data *)

OBJECT     == "object"
DATETIME64 == "datetime64[ns]"

\* .to_pandas(): the three date columns arrive with dtype object
to_pandas(rows) ==
    [dtypes |-> [c \in {BILLING, REPORTING, END_DATE} |-> OBJECT], rows |-> rows]

\* df[column] = pd.to_datetime(df[column])
AssignDatetime(df, column) ==
    [dtypes |-> [df.dtypes EXCEPT ![column] = DATETIME64],
     rows   |-> [i \in DOMAIN df.rows |->
                    [df.rows[i] EXCEPT ![column] = to_datetime(@)]]]

\* NormalizeDates without line 72, the billing start left as it arrived:
\* EmptyIsNoError tells the two apart
NormalizeDatesButBilling(df) ==
    AssignDatetime(AssignDatetime(df, REPORTING), END_DATE)

\* lines 72-74
NormalizeDates(df) ==
    AssignDatetime(AssignDatetime(AssignDatetime(df, BILLING), REPORTING), END_DATE)

\* lines 47-58: the Snowpark filters
Query(tbl, date, product_group, channel, award_agent_team) ==
    LET selected_date_str == strftime(date)
        f0 == filter(tbl, [i \in DOMAIN tbl |->
                            /\ sql_eq(tbl[i]["CUSTOMER_CHURN_FLAG"], "Y")
                            /\ sql_date_eq(tbl[i][BILLING], selected_date_str)])
        f1 == IF product_group # All
              THEN filter(f0, [i \in DOMAIN f0 |->
                                 sql_eq(f0[i]["PRODUCT_GROUP"], product_group)])
              ELSE f0
        f2 == IF channel # All
              THEN filter(f1, [i \in DOMAIN f1 |-> sql_eq(f1[i]["CHANNEL"], channel)])
              ELSE f1
    IN  IF award_agent_team # All
        THEN filter(f2, [i \in DOMAIN f2 |->
                           sql_eq(f2[i]["AWARD_AGENT_TEAM_ROLL_UP"], award_agent_team)])
        ELSE f2

extract_data(tbl, date, product_group, channel, award_agent_team) ==
    NormalizeDates(to_pandas(Query(tbl, date, product_group, channel, award_agent_team)))

-----------------------------------------------------------------------------
(* analyze_churn: the point returned, the dataframe as the call leaves it, *)
(* and whether the call raised                                             *)

\* line 81 needs two datetime columns: anything else has no timedelta .dt
CanSubtract(df, date_col) ==
    df.dtypes[date_col] = DATETIME64 /\ df.dtypes[BILLING] = DATETIME64

\* AssignDaysToChurn keeping a scratch column that is already there:
\* CallsShareRows tells the two apart
AssignDaysToChurnOnce(df, date_col) ==
    IF "days_to_churn" \in DOMAIN df.dtypes
    THEN df
    ELSE [dtypes |-> ("days_to_churn" :> "days") @@ df.dtypes,
          rows   |-> [i \in DOMAIN df.rows |->
                         ("days_to_churn" :>
                             timedelta_days(df.rows[i][date_col], df.rows[i][BILLING]))
                         @@ df.rows[i]]]

\* line 81
AssignDaysToChurn(df, date_col) ==
    [dtypes |-> ("days_to_churn" :> "days") @@ df.dtypes,
     rows   |-> [i \in DOMAIN df.rows |->
                    ("days_to_churn" :>
                        timedelta_days(df.rows[i][date_col], df.rows[i][BILLING]))
                    @@ df.rows[i]]]

\* the count of line 87
filtered_count(df, m) ==
    Cardinality({i \in DOMAIN df.rows :
                    le_scalar(df.rows[i]["days_to_churn"], DaysPerMonth * m)})

analyze_churn(df, m, date_col) ==
    LET df1 == AssignDatetime(df, date_col)
        df2 == AssignDaysToChurn(df1, date_col)
        total_count == Len(df2.rows)
        churn_rate == true_div(filtered_count(df2, m), total_count)
    IN  IF ~CanSubtract(df1, date_col)
        THEN [df |-> df1, ret |-> << >>, raised |-> TRUE]
        ELSE IF total_count = 0
        THEN [df |-> df2, ret |-> << m, Zero >>, raised |-> FALSE]
        ELSE [df |-> df2, ret |-> << m, churn_rate >>, raised |-> FALSE]

-----------------------------------------------------------------------------
(* The warehouse tables and sidebar inputs the runs are checked over *)

Row(id, flag, billing, reporting, end, channel, product_group, team) ==
    [ CLIENT_ID                     |-> id,
      AGREEMENT_BILLING_START_DATE  |-> billing,
      REPORTING_DATE_START_OF_MONTH |-> reporting,
      AGREEMENT_EFF_END_DATE        |-> end,
      CUSTOMER_CHURN_FLAG           |-> flag,
      CHANNEL                       |-> channel,
      PRODUCT_GROUP                 |-> product_group,
      AWARD_AGENT_TEAM_ROLL_UP      |-> team ]

\* a date cell `off` days after `base`; << >> is a missing date
DateCell(base, off) == IF off = << >> THEN RawNone ELSE RawDate(base + off[1])

\* days from billing start to the end date / the reporting date of a row
EndOffsets == << << >>, << -1 >>, << 30 >>, << 31 >> >>
RepOffsets == << << >>, << 360 >>, << 361 >> >>

OtherDate == DefaultDate + 1

NDated == Len(EndOffsets) * Len(RepOffsets)

\* rows the driver's extraction leaves out: not churned, another billing
\* start, another channel
Outsiders(id) ==
    << Row(id, "N", RawDate(DefaultDate), RawNone, RawDate(DefaultDate), "A", "P", "T"),
       Row(id, "Y", RawDate(OtherDate), RawNone, RawDate(OtherDate), "A", "P", "T"),
       Row(id, "Y", RawDate(DefaultDate), RawNone, RawDate(DefaultDate), "B", "P", "T") >>

NDriverRows == NDated + Len(Outsiders(0))

\* the k-th kind of row of the driver's tables
DriverRow(k, id) ==
    IF k <= NDated
    THEN Row(id, "Y", RawDate(DefaultDate),
             DateCell(DefaultDate, RepOffsets[((k - 1) \div Len(EndOffsets)) + 1]),
             DateCell(DefaultDate, EndOffsets[((k - 1) % Len(EndOffsets)) + 1]),
             "A", "P", "T")
    ELSE Outsiders(id)[k - NDated]

Categories == << "A", "B", NULL >>
Flags      == << "Y", "N" >>
Billings   == << DefaultDate, OtherDate >>

NFilterRows == Len(Flags) * Len(Billings) * Len(Categories) * Len(Categories) * Len(Categories)

\* the k-th kind of row of the extraction's tables
FilterRow(k, id) ==
    LET a == k - 1
        nc == Len(Categories)
    IN  Row(id, Flags[(a % 2) + 1],
            RawDate(Billings[((a \div 2) % 2) + 1]),
            RawNone, RawDate(OtherDate),
            Categories[((a \div 4) % nc) + 1],
            Categories[((a \div (4 * nc)) % nc) + 1],
            Categories[((a \div (4 * nc * nc)) % nc) + 1])

\* the kinds of the rows of a table of at most n rows, kinds 1..K, up to
\* the order of the rows
KindSeqs(K, n) ==
    UNION { { t \in [1..len -> 1..K] : \A i \in 1..(len - 1) : t[i] <= t[i + 1] }
            : len \in 0..n }

DriverTables(n) ==
    { [i \in DOMAIN s |-> DriverRow(s[i], i)] : s \in KindSeqs(NDriverRows, n) }

FilterTables(n) ==
    { [i \in DOMAIN s |-> FilterRow(s[i], i)] : s \in KindSeqs(NFilterRows, n) }

Unset ==
    /\ dataframe = to_pandas(<< >>)
    /\ progress_bar = 0
    /\ status_text = << >>
    /\ churn_month = 0
    /\ month = 0
    /\ initial_data = << >>
    /\ initial_data_reporting = << >>
    /\ new_data = << >>
    /\ new_data_reporting = << >>
    /\ df_billing_start = << >>
    /\ df_reporting_start = << >>
    /\ fig = << >>
    /\ chart = << >>
    /\ raw_data = << >>
    /\ pc = "extract"

\* the script up to line 39: the table, and what the sidebar holds
Init ==
    /\ table \in DriverTables(MaxRows)
    /\ selected_date = DefaultDate
    /\ selected_product_group = All
    /\ selected_channel \in unique_channels(table) \ {"B"}
    /\ selected_award_agent_team = All
    /\ Unset

\* the same with the sidebar left as it comes up
InitDefaults ==
    /\ table \in DriverTables(MaxLiveRows)
    /\ selected_date = DefaultDate
    /\ selected_product_group = All
    /\ selected_channel = All
    /\ selected_award_agent_team = All
    /\ Unset

InitExtract ==
    /\ table \in FilterTables(MaxTableRows)
    /\ selected_date \in {DefaultDate, OtherDate}
    /\ selected_product_group \in unique_product_groups(table)
    /\ selected_channel \in unique_channels(table)
    /\ selected_award_agent_team \in unique_award_agent_teams(table)
    /\ Unset

-----------------------------------------------------------------------------
(* The script, statement by statement *)

inputs == << table, selected_date, selected_product_group, selected_channel,
             selected_award_agent_team >>

points == << initial_data, initial_data_reporting, new_data, new_data_reporting >>

series == << df_billing_start, df_reporting_start >>

\* line 93 (the session's read of the table does not raise)
Extract ==
    /\ pc = "extract"
    /\ dataframe' = extract_data(table, selected_date, selected_product_group,
                                 selected_channel, selected_award_agent_team)
    /\ pc' = "setup"
    /\ UNCHANGED << inputs, points, series, progress_bar, status_text,
                    churn_month, month, fig, chart, raw_data >>

\* lines 96-98
Setup ==
    /\ pc = "setup"
    /\ progress_bar' = 0
    /\ status_text' = << >>
    /\ churn_month' = 1
    /\ pc' = "initial_data"
    /\ UNCHANGED << inputs, points, series, dataframe, month, fig, chart, raw_data >>

\* line 99
InitialData ==
    /\ pc = "initial_data"
    /\ LET r == analyze_churn(dataframe, churn_month, END_DATE)
       IN  /\ dataframe' = r.df
           /\ IF r.raised
              THEN initial_data' = initial_data /\ pc' = "raised"
              ELSE initial_data' = r.ret /\ pc' = "initial_data_reporting"
    /\ UNCHANGED << inputs, initial_data_reporting, new_data, new_data_reporting,
                    series, progress_bar, status_text, churn_month, month, fig,
                    chart, raw_data >>

\* line 100
InitialDataReporting ==
    /\ pc = "initial_data_reporting"
    /\ LET r == analyze_churn(dataframe, churn_month, REPORTING)
       IN  /\ dataframe' = r.df
           /\ IF r.raised
              THEN initial_data_reporting' = initial_data_reporting /\ pc' = "raised"
              ELSE initial_data_reporting' = r.ret /\ pc' = "init_frames"
    /\ UNCHANGED << inputs, initial_data, new_data, new_data_reporting,
                    series, progress_bar, status_text, churn_month, month, fig,
                    chart, raw_data >>

\* lines 102-103
InitFrames ==
    /\ pc = "init_frames"
    /\ df_billing_start' = << initial_data >>
    /\ df_reporting_start' = << initial_data_reporting >>
    /\ pc' = "init_chart"
    /\ UNCHANGED << inputs, points, dataframe, progress_bar, status_text,
                    churn_month, month, fig, chart, raw_data >>

Figure == [billing |-> df_billing_start, reporting |-> df_reporting_start]

\* lines 105-110
InitChart ==
    /\ pc = "init_chart"
    /\ fig' = Figure
    /\ chart' = Figure
    /\ pc' = "loop"
    /\ UNCHANGED << inputs, points, series, dataframe, progress_bar, status_text,
                    churn_month, month, raw_data >>

\* NextMonth for range(3, 13): SeriesLength tells the two apart
NextMonthFromThree == IF month = 0 THEN 3 ELSE month + 1

\* range(2, 13), as the loop draws from it
NextMonth == IF month = 0 THEN 2 ELSE month + 1

\* LoopHead for range(2, 12): RunCompletes tells the two apart
LoopHeadStopsEarly ==
    /\ pc = "loop"
    /\ IF (IF month = 0 THEN 2 ELSE month + 1) < LastMonth
       THEN month' = (IF month = 0 THEN 2 ELSE month + 1) /\ pc' = "new_data"
       ELSE month' = month /\ pc' = "completed"
    /\ UNCHANGED << inputs, points, series, dataframe, progress_bar, status_text,
                    churn_month, fig, chart, raw_data >>

\* line 113
LoopHead ==
    /\ pc = "loop"
    /\ IF NextMonth <= LastMonth
       THEN month' = NextMonth /\ pc' = "new_data"
       ELSE month' = month /\ pc' = "completed"
    /\ UNCHANGED << inputs, points, series, dataframe, progress_bar, status_text,
                    churn_month, fig, chart, raw_data >>

\* line 114
NewData ==
    /\ pc = "new_data"
    /\ LET r == analyze_churn(dataframe, month, END_DATE)
       IN  /\ dataframe' = r.df
           /\ IF r.raised
              THEN new_data' = new_data /\ pc' = "raised"
              ELSE new_data' = r.ret /\ pc' = "new_data_reporting"
    /\ UNCHANGED << inputs, initial_data, initial_data_reporting, new_data_reporting,
                    series, progress_bar, status_text, churn_month, month, fig,
                    chart, raw_data >>

\* line 115
NewDataReporting ==
    /\ pc = "new_data_reporting"
    /\ LET r == analyze_churn(dataframe, month, REPORTING)
       IN  /\ dataframe' = r.df
           /\ IF r.raised
              THEN new_data_reporting' = new_data_reporting /\ pc' = "raised"
              ELSE new_data_reporting' = r.ret /\ pc' = "concat"
    /\ UNCHANGED << inputs, initial_data, initial_data_reporting, new_data,
                    series, progress_bar, status_text, churn_month, month, fig,
                    chart, raw_data >>

\* lines 117-118
Concat ==
    /\ pc = "concat"
    /\ df_billing_start' = df_billing_start \o << new_data >>
    /\ df_reporting_start' = df_reporting_start \o << new_data_reporting >>
    /\ pc' = "figure"
    /\ UNCHANGED << inputs, points, dataframe, progress_bar, status_text,
                    churn_month, month, fig, chart, raw_data >>

\* lines 120-143
BuildFigure ==
    /\ pc = "figure"
    /\ fig' = Figure
    /\ pc' = "status"
    /\ UNCHANGED << inputs, points, series, dataframe, progress_bar, status_text,
                    churn_month, month, chart, raw_data >>

\* Percent for int(month / 12) * 100: StepProgress tells the two apart
PercentIntFirst(m) == (m \div LastMonth) * 100

\* int((month / 12) * 100)
Percent(m) == (m * 100) \div LastMonth

\* line 144
StatusText ==
    /\ pc = "status"
    /\ status_text' = << "% Complete", Percent(month) >>
    /\ pc' = "plot"
    /\ UNCHANGED << inputs, points, series, dataframe, progress_bar,
                    churn_month, month, fig, chart, raw_data >>

\* line 145
PlotChart ==
    /\ pc = "plot"
    /\ chart' = fig
    /\ pc' = "progress"
    /\ UNCHANGED << inputs, points, series, dataframe, progress_bar, status_text,
                    churn_month, month, fig, raw_data >>

\* lines 146-147
Progress ==
    /\ pc = "progress"
    /\ progress_bar' = Percent(month)
    /\ pc' = "loop"
    /\ UNCHANGED << inputs, points, series, dataframe, status_text,
                    churn_month, month, fig, chart, raw_data >>

\* line 149
Completed ==
    /\ pc = "completed"
    /\ status_text' = << "Analysis Completed!" >>
    /\ pc' = "raw_data"
    /\ UNCHANGED << inputs, points, series, dataframe, progress_bar,
                    churn_month, month, fig, chart, raw_data >>

\* lines 150-155
RawData ==
    /\ pc = "raw_data"
    /\ raw_data' = dataframe
    /\ pc' = "done"
    /\ UNCHANGED << inputs, points, series, dataframe, progress_bar, status_text,
                    churn_month, month, fig, chart >>

Next ==
    \/ Extract
    \/ Setup
    \/ InitialData
    \/ InitialDataReporting
    \/ InitFrames
    \/ InitChart
    \/ LoopHead
    \/ NewData
    \/ NewDataReporting
    \/ Concat
    \/ BuildFigure
    \/ StatusText
    \/ PlotChart
    \/ Progress
    \/ Completed
    \/ RawData

\* a run of the whole script
Spec == Init /\ [][Next]_vars

\* a run of the whole script that is not stopped from outside
LiveSpec == InitDefaults /\ [][Next]_vars /\ WF_vars(Next)

\* the extraction alone, over every filter combination the sidebar offers
ExtractSpec == InitExtract /\ [][Extract]_vars

-----------------------------------------------------------------------------
(* What the properties below speak of *)

\* every point analyze_churn has returned so far for a date column
Returned(col) ==
    LET locals == IF col = END_DATE
                  THEN {initial_data, new_data}
                  ELSE {initial_data_reporting, new_data_reporting}
        s == IF col = END_DATE THEN df_billing_start ELSE df_reporting_start
    IN  (locals \ {<< >>}) \cup { s[i] : i \in DOMAIN s }

Rows == dataframe.rows

\* the row has a reference date in column col
Present(row, col) == row[col].kind \in {"ts", "date"}

\* whole days from billing start to the reference date
DaysElapsed(row, col) == row[col].day - row[BILLING].day

\* rows whose reference date lies within 30 * m days of billing start
MatchedRows(m, col) ==
    { i \in DOMAIN Rows : Present(Rows[i], col) /\ DaysElapsed(Rows[i], col) <= 30 * m }

\* rows without a reference date in column col
MissingRows(col) == { i \in DOMAIN Rows : ~Present(Rows[i], col) }

LoopOver == pc \in {"completed", "raw_data", "done"}

MonthsOneTo(s, n) == Len(s) = n /\ \A i \in 1..n : s[i][1] = i

NonDecreasing(s) ==
    \A i, j \in DOMAIN s : i < j => s[i][2].num * s[j][2].den <= s[j][2].num * s[i][2].den

-----------------------------------------------------------------------------
(* C1: once the animation loop is over, each of the two series holds       *)
(* exactly 12 points and their months are 1, 2, ..., 12 in this order,     *)
(* whatever rows were extracted (none included).                           *)
SeriesLength ==
    LoopOver => MonthsOneTo(df_billing_start, 12) /\ MonthsOneTo(df_reporting_start, 12)

\* a finished run over an extraction that kept no row of a non-empty table
SeriesLengthWitness ==
    /\ pc = "done"
    /\ table # << >>
    /\ Rows = << >>
    /\ Len(df_billing_start) = 12
    /\ df_reporting_start[12][1] = 12

(* C2: on a non-empty row set every point returned for month m and a date  *)
(* column is (m, matched / total): total the number of rows, matched the   *)
(* number of rows whose reference date is at most 30 * m days after        *)
(* billing start, the day 30 * m itself and days before billing start      *)
(* included.                                                               *)
PointIsMatchedOverTotal ==
    Rows # << >> =>
        \A col \in DateCols : \A p \in Returned(col) :
            /\ p[1] >= 1
            /\ p[2].den > 0
            /\ p[2].num * Len(Rows) = Cardinality(MatchedRows(p[1], col)) * p[2].den

\* three rows ending 1 day before, 30 and 31 days after billing start:
\* month 1 matches the first two
PointIsMatchedOverTotalWitness ==
    /\ pc = "done"
    /\ Len(Rows) = 3
    /\ { DaysElapsed(Rows[i], END_DATE) : i \in MatchedRows(12, END_DATE) } = {-1, 30, 31}
    /\ df_billing_start[1] = << 1, [num |-> 2, den |-> 3] >>
    /\ df_billing_start[2] = << 2, [num |-> 1, den |-> 1] >>

(* C3: the churn rate never decreases with the month offset: each of the   *)
(* two series is non-decreasing from month 1 to month 12.                  *)
Monotonic ==
    NonDecreasing(df_billing_start) /\ NonDecreasing(df_reporting_start)

\* a finished run whose two series both rise, at different months
MonotonicWitness ==
    /\ pc = "done"
    /\ df_billing_start[1][2] # df_billing_start[2][2]
    /\ df_reporting_start[11][2] # df_reporting_start[12][2]
    /\ df_reporting_start[12][2] # [num |-> 1, den |-> 1]

(* C4: on a non-empty row set every returned churn rate lies in [0, 1]:    *)
(* matched never exceeds total, missing reference dates and negative       *)
(* elapsed days included.                                                  *)
RateInUnitInterval ==
    Rows # << >> =>
        \A col \in DateCols : \A p \in Returned(col) :
            p[2].den > 0 /\ 0 <= p[2].num /\ p[2].num <= p[2].den

\* a rate strictly inside (0, 1) on rows with a missing date and a
\* negative elapsed time
RateInUnitIntervalWitness ==
    /\ pc = "done"
    /\ MissingRows(END_DATE) # {}
    /\ \E i \in DOMAIN Rows : Present(Rows[i], END_DATE) /\ DaysElapsed(Rows[i], END_DATE) < 0
    /\ df_billing_start[12][2].num > 0
    /\ df_billing_start[12][2].num < df_billing_start[12][2].den

(* C5: an empty row set is no error: no call raises on it, every point    *)
(* returned is (m, 0), and the run still goes through all 12 months, both  *)
(* series ending with rate 0 at every month 1..12.                         *)
EmptyIsNoError ==
    (pc # "extract" /\ Rows = << >>) =>
        /\ pc # "raised"
        /\ \A col \in DateCols : \A p \in Returned(col) : p[1] >= 1 /\ p[2] = Zero
        /\ pc \notin {"setup", "initial_data"} => initial_data = << 1, Zero >>
        /\ LoopOver =>
              \A s \in {df_billing_start, df_reporting_start} :
                  Len(s) = 12 /\ \A i \in 1..12 : s[i] = << i, Zero >>

\* a finished run over an empty table, the last chart showing twelve zeros
EmptyIsNoErrorWitness ==
    /\ pc = "done"
    /\ table = << >>
    /\ Rows = << >>
    /\ Len(chart.billing) = 12
    /\ chart.reporting[12] = << 12, Zero >>

\* the column the last call of analyze_churn worked on ("" before any call)
ScratchCol ==
    CASE pc \in {"extract", "setup", "initial_data", "raised"} -> ""
      [] pc \in {"initial_data_reporting", "new_data_reporting"} -> END_DATE
      [] OTHER -> REPORTING

(* C6: a row whose reference date is missing is counted in total and never *)
(* in matched, whatever the month: with k of n rows missing the date of a  *)
(* column, every rate of that column is at most (n - k) / n, and the nulls *)
(* of the two columns count separately.                                    *)
MissingNeverMatched ==
    /\ \A col \in DateCols : \A p \in Returned(col) :
          LET n == Len(Rows)
              k == Cardinality(MissingRows(col))
          IN  n > 0 => p[2].num * n <= (n - k) * p[2].den
    /\ ScratchCol # "" =>
          \A i \in MissingRows(ScratchCol) : Rows[i]["days_to_churn"] = NaN

\* three rows, one without end date, none without reporting date: the end
\* date series stops at 2/3 while the reporting series reaches 1
MissingNeverMatchedWitness ==
    /\ pc = "done"
    /\ Len(Rows) = 3
    /\ Cardinality(MissingRows(END_DATE)) = 1
    /\ MissingRows(REPORTING) = {}
    /\ df_billing_start[12][2] = [num |-> 2, den |-> 3]
    /\ df_reporting_start[12][2] = [num |-> 1, den |-> 1]

Announced == status_text = << "Analysis Completed!" >>

(* C7: a run that has extracted its rows always reaches the end of the     *)
(* script; "Analysis Completed!" is shown only once month 12 has been      *)
(* computed, appended to both series and drawn, never while a series has   *)
(* fewer than 12 points; and the months are taken one by one from 2 to 12. *)
RunCompletes ==
    /\ (pc = "setup") ~> (pc = "done" /\ Announced)
    /\ [](Announced =>
            /\ month = 12
            /\ Len(df_billing_start) = 12 /\ Len(df_reporting_start) = 12
            /\ df_billing_start[12][1] = 12 /\ df_reporting_start[12][1] = 12
            /\ chart = [billing |-> df_billing_start, reporting |-> df_reporting_start])
    /\ [][/\ month' # month => month' = (IF month = 0 THEN 2 ELSE month + 1)
          /\ Len(df_billing_start') # Len(df_billing_start) =>
                df_billing_start'[Len(df_billing_start')][1] = Len(df_billing_start) + 1
          /\ Len(df_reporting_start') # Len(df_reporting_start) =>
                df_reporting_start'[Len(df_reporting_start')][1] = Len(df_reporting_start) + 1
         ]_vars

\* the end of a run over two extracted rows, the completion text on show
RunCompletesWitness ==
    /\ pc = "done"
    /\ Announced
    /\ Len(Rows) = 2
    /\ progress_bar = 100
    /\ Len(chart.billing) = 12

\* the months whose step has been carried out in full
StepsDone == IF pc \in {"loop", "completed", "raw_data", "done"} THEN month ELSE month - 1

\* f = floor(m / 12 * 100)
IsPercentOf(f, m) == 12 * f <= 100 * m /\ 100 * m < 12 * (f + 1)

(* C8: when the chart is redrawn in the step of month m (2..12) both       *)
(* series hold exactly the m points of months 1..m, and the step sets the  *)
(* progress to floor(m / 12 * 100); the progress starts at 0, grows        *)
(* strictly from step to step and is 100 exactly when month 12 is done.    *)
StepProgress ==
    /\ [](/\ pc = "progress" =>
               /\ month \in 2..12
               /\ chart = [billing |-> df_billing_start, reporting |-> df_reporting_start]
               /\ MonthsOneTo(chart.billing, month)
               /\ MonthsOneTo(chart.reporting, month)
          /\ IF StepsDone <= 1 THEN progress_bar = 0
                               ELSE IsPercentOf(progress_bar, StepsDone)
          /\ progress_bar = 100 <=> StepsDone = 12)
    /\ [][progress_bar' # progress_bar \/ pc = "progress" =>
            /\ progress_bar' > progress_bar
            /\ IsPercentOf(progress_bar', month)
            /\ status_text = << "% Complete", progress_bar' >>]_vars

\* the redraw of month 7: seven points drawn, the bar still at 50
StepProgressWitness ==
    /\ pc = "progress"
    /\ month = 7
    /\ Len(chart.billing) = 7
    /\ progress_bar = 50
    /\ status_text = << "% Complete", 58 >>
    /\ Rows # << >>

\* the rows of the table the selection asks for: churned, billing started
\* on the selected date, and equal to every select box that is not "All"
Selected(r) ==
    /\ r["CUSTOMER_CHURN_FLAG"] = "Y"
    /\ r[BILLING].day = selected_date
    /\ selected_product_group # All => r["PRODUCT_GROUP"] = selected_product_group
    /\ selected_channel # All => r["CHANNEL"] = selected_channel
    /\ selected_award_agent_team # All =>
          r["AWARD_AGENT_TEAM_ROLL_UP"] = selected_award_agent_team

ClientIds(rows) == [i \in DOMAIN rows |-> rows[i]["CLIENT_ID"]]

(* C9: extract_data returns exactly the rows of the table that are         *)
(* churned, whose billing start is the selected date, and whose product    *)
(* group, channel and award team each equal the selected value unless that *)
(* value is "All"; every combination the select boxes offer is accepted.   *)
ExtractReturnsSelected ==
    pc = "setup" => ClientIds(Rows) = ClientIds(filter(table, [i \in DOMAIN table |-> Selected(table[i])]))

\* the same with no select box set to the missing value
ExtractReturnsSelectedUnlessNone ==
    (pc = "setup" /\ NULL \notin {selected_product_group, selected_channel,
                                  selected_award_agent_team})
        => ClientIds(Rows) = ClientIds(filter(table, [i \in DOMAIN table |-> Selected(table[i])]))

\* the dataframe without the scratch column
Frame(df) ==
    [dtypes |-> [c \in DateCols \cup {BILLING} |-> df.dtypes[c]],
     rows   |-> [i \in DOMAIN df.rows |->
                    [c \in DOMAIN df.rows[i] \ {"days_to_churn"} |-> df.rows[i][c]]]]

Column(df, c) == [i \in DOMAIN df.rows |-> df.rows[i][c]]

\* days from billing start to reference date, row by row, NaN where missing
DaysOf(ref, billing) ==
    [i \in DOMAIN ref |-> IF ref[i].kind = "ts" /\ billing[i].kind = "ts"
                          THEN << ref[i].day - billing[i].day >> ELSE NaN]

\* p is the point of month m computed from one reference column alone
PointOf(p, m, ref, billing) ==
    LET n == Len(ref)
        hit == { i \in DOMAIN ref : DaysOf(ref, billing)[i] # NaN
                                    /\ DaysOf(ref, billing)[i][1] <= 30 * m }
    IN  /\ p[1] = m
        /\ IF n = 0 THEN p[2] = Zero
                    ELSE p[2].den > 0 /\ p[2].num * n = Cardinality(hit) * p[2].den

(* C10: after the one extraction every call of analyze_churn sees the same *)
(* rows: a call changes nothing of the dataframe but the scratch column    *)
(* days_to_churn, which it fills from its own date column before reading   *)
(* it; so a point of either series is computed from its own column alone,  *)
(* whatever call came before.                                              *)
CallsShareRows ==
    /\ [](pc \notin {"extract", "raised"} =>
            /\ \A col \in DateCols : \A p \in Returned(col) :
                  PointOf(p, p[1], Column(dataframe, col), Column(dataframe, BILLING))
            /\ pc \in {"setup", "initial_data_reporting", "init_frames", "done"} =>
               \A col \in DateCols : \A m \in {1, 2, 12} :
                  LET r == analyze_churn(dataframe, m, col)
                  IN  /\ ~r.raised
                      /\ Frame(r.df) = Frame(dataframe)
                      /\ Column(r.df, "days_to_churn")
                            = DaysOf(Column(dataframe, col), Column(dataframe, BILLING))
                      /\ PointOf(r.ret, m, Column(dataframe, col),
                                 Column(dataframe, BILLING)))
    /\ [][pc # "extract" => Frame(dataframe') = Frame(dataframe) /\ table' = table]_vars

\* month 12 just computed for both columns: the scratch column holds the
\* reporting days, which differ from the end-date days, and so do the points
CallsShareRowsWitness ==
    /\ pc = "concat"
    /\ month = 12
    /\ Len(Rows) = 3
    /\ new_data[2] # new_data_reporting[2]
    /\ Column(dataframe, "days_to_churn")
          # DaysOf(Column(dataframe, END_DATE), Column(dataframe, BILLING))
    /\ Column(dataframe, "days_to_churn")
          = DaysOf(Column(dataframe, REPORTING), Column(dataframe, BILLING))

====
